---- MODULE Spec2Model ----
(***************************************************************************)
(* Model of pizza_sales_app.py: a Streamlit script that loads a CSV of     *)
(* pizza order line-items once (st.cache_data) and, on every rerun,        *)
(* renders one of three pages.  Each rerun executes the whole script:      *)
(* load_data(), the sidebar radio, and the selected page function.         *)
(*                                                                         *)
(* Strings that the code orders (group keys, np.unique) are modelled as    *)
(* sequences of character codes, compared lexicographically.  Prices are   *)
(* exact amounts (integers); floating-point rounding is not modelled.      *)
(***************************************************************************)
EXTENDS Integers, Sequences, FiniteSets, TLC

\* Largest number of data rows in the CSV file.
MaxRows == 3
\* Largest number of data rows in the CSV file when a column may be missing.
MaxRowsSchema == 2

----------------------------------------------------------------------------
(* The input domain: the contents the CSV file may have.                   *)

Columns ==
  {"pizza_category", "pizza_name", "pizza_size", "unit_price", "total_price", "order_date"}

\* "Classic", "Veggie" (abbreviated to their initials' codes)
Classic == <<67>>
Veggie == <<86>>
\* pizza sizes "M" and "L"
SizeM == <<77>>
SizeL == <<76>>
\* pizza names "AB", "A", "B"
NameAB == <<65, 66>>
NameA == <<65>>
NameB == <<66>>

\* The kinds of order line the file may hold: a pizza in a size, its unit
\* price and the quantity ordered.  Every pizza_name has one pizza_category.
OrderLines ==
  { [pizza_name |-> NameAB, pizza_category |-> Classic, pizza_size |-> SizeM,
     unit_price |-> 2, quantity |-> 1],
    [pizza_name |-> NameA,  pizza_category |-> Classic, pizza_size |-> SizeL,
     unit_price |-> 1, quantity |-> 2],
    [pizza_name |-> NameB,  pizza_category |-> Veggie,  pizza_size |-> SizeM,
     unit_price |-> 3, quantity |-> 1],
    [pizza_name |-> NameAB, pizza_category |-> Classic, pizza_size |-> SizeL,
     unit_price |-> 3, quantity |-> 1] }

\* order_date cells as written in the file: year, month, day.
DateTexts == { <<2023, 1, 31>>, <<2023, 2, 2>> }

\* A cell of the order_date column: text as read by read_csv, or a Timestamp.
DateStr(ymd) == [kind |-> "str", ymd |-> ymd]
Timestamp(day) == [kind |-> "ts", day |-> day]

CsvRows ==
  { [pizza_category |-> m.pizza_category, pizza_name |-> m.pizza_name,
     pizza_size |-> m.pizza_size, unit_price |-> m.unit_price,
     total_price |-> m.unit_price * m.quantity, order_date |-> DateStr(t)] :
       m \in OrderLines, t \in DateTexts }

\* A DataFrame: its column labels and its rows in index order; a row maps
\* each column label to the cell.
Frame(cols, rows) == [columns |-> cols, rows |-> rows]

Project(r, cols) == [c \in cols |-> r[c]]

\* pd.read_csv: the file's header and rows become a frame.
read_csv(cols, lines) == Frame(cols, [i \in 1..Len(lines) |-> Project(lines[i], cols)])

CsvFiles(n) == UNION { [1..k -> CsvRows] : k \in 0..n }

----------------------------------------------------------------------------
(* pandas / numpy / streamlit primitives used by the script.               *)

\* Python's None; the empty string of codes, which equals no category.
None == <<>>

\* Python string comparison: lexicographic on code points.
StrLess(a, b) ==
  \E i \in 1..(Len(a) + 1) :
     /\ \A j \in 1..(i - 1) : j <= Len(b) /\ a[j] = b[j]
     /\ \/ i = Len(a) + 1 /\ i <= Len(b)
        \/ i <= Len(a) /\ i <= Len(b) /\ a[i] < b[i]

DaysBeforeMonth == <<0, 31, 59, 90, 120, 151, 181, 212, 243, 273, 304, 334>>

\* Days from 2023-01-01 to the calendar date (the model's Timestamp value).
DayNumber(ymd) == (ymd[1] - 2023) * 365 + DaysBeforeMonth[ymd[2]] + (ymd[3] - 1)

\* pd.to_datetime on one cell: text is parsed, a Timestamp is returned as is.
to_datetime(v) == IF v.kind = "str" THEN Timestamp(DayNumber(v.ymd)) ELSE v

\* frame[col] as a sequence of cells.
Column(rows, col) == [i \in 1..Len(rows) |-> rows[i][col]]

\* frame[col] = values : the frame with the column replaced.
assign_column(f, col, vals) ==
  Frame(f.columns \cup {col},
        [i \in 1..Len(f.rows) |-> [c \in f.columns \cup {col} |->
                                     IF c = col THEN vals[i] ELSE f.rows[i][c]]])

\* Series.sum(): 0 for an empty series.
RECURSIVE series_sum(_)
series_sum(s) == IF s = <<>> THEN 0 ELSE Head(s) + series_sum(Tail(s))

\* Series.mean() as the pair <<sum, count>>; count 0 is NaN (0/0).
series_mean(s) == <<series_sum(s), Len(s)>>

IsNaN(m) == m[2] = 0

\* Series.unique(): the distinct values in order of first occurrence.
RECURSIVE unique(_)
unique(s) ==
  IF s = <<>> THEN <<>>
  ELSE <<Head(s)>> \o unique(SelectSeq(Tail(s), LAMBDA x : x # Head(s)))

\* Order of group keys: Timestamps by time, strings lexicographically.
KeyLess(col, a, b) == IF col = "order_date" THEN a.day < b.day ELSE StrLess(a, b)

DescendingSeq(S, col) ==
  [i \in 1..Cardinality(S) |->
     CHOOSE x \in S : Cardinality({y \in S : KeyLess(col, x, y)}) = i - 1]

\* The distinct keys S in ascending order (groupby sort=True, np.unique).
SortedSeq(S, col) ==
  [i \in 1..Cardinality(S) |->
     CHOOSE x \in S : Cardinality({y \in S : KeyLess(col, y, x)}) = i - 1]

\* np.unique(frame[col]): the sorted distinct values.
np_unique(rows, col) == SortedSeq({rows[i][col] : i \in 1..Len(rows)}, col)

bool_index_other(f, col, v) == Frame(f.columns, SelectSeq(f.rows, LAMBDA r : r[col] # v))

\* frame[frame[col] == v]: a new frame with the matching rows, order kept.
bool_index(f, col, v) == Frame(f.columns, SelectSeq(f.rows, LAMBDA r : r[col] = v))

isin_index_one(f, col, vals) ==
  LET v == CHOOSE v \in vals : TRUE
  IN  Frame(f.columns, SelectSeq(f.rows, LAMBDA r : r[col] = v))

\* frame[frame[col].isin(vals)]: a new frame with the matching rows.
isin_index(f, col, vals) == Frame(f.columns, SelectSeq(f.rows, LAMBDA r : r[col] \in vals))

group_rows_first(rows, col, k) ==
  LET g == SelectSeq(rows, LAMBDA r : r[col] = k) IN IF g = <<>> THEN g ELSE <<Head(g)>>

\* The rows of one group of a groupby.
group_rows(rows, col, k) == SelectSeq(rows, LAMBDA r : r[col] = k)

\* One row of a grouped sum after reset_index(): the key and the sum.
GroupRow(col, k, total) == [c \in {col, "total_price"} |-> IF c = col THEN k ELSE total]

groupby_sum_first_seen(rows, col) ==
  LET keys == unique(Column(rows, col))
  IN  [i \in 1..Len(keys) |->
         GroupRow(col, keys[i], series_sum(Column(group_rows(rows, col, keys[i]), "total_price")))]

groupby_sum_zero_fill(rows, col) ==
  LET keys == SortedSeq({rows[i][col] : i \in 1..Len(rows)}, col)
  IN  IF rows = <<>> THEN <<GroupRow(col, None, 0)>>
      ELSE [i \in 1..Len(keys) |->
         GroupRow(col, keys[i], series_sum(Column(group_rows(rows, col, keys[i]), "total_price")))]

\* frame.groupby(col)['total_price'].sum() / .agg({'total_price': 'sum'}),
\* then reset_index(): one row per distinct key, keys sorted ascending.
groupby_sum(rows, col) ==
  LET keys == SortedSeq({rows[i][col] : i \in 1..Len(rows)}, col)
  IN  [i \in 1..Len(keys) |->
         GroupRow(col, keys[i], series_sum(Column(group_rows(rows, col, keys[i]), "total_price")))]

\* Series.max() on a non-empty series of amounts.
series_max(s) == CHOOSE x \in {s[i] : i \in 1..Len(s)} : \A i \in 1..Len(s) : s[i] <= x

idxmax_last(g, col) ==
  LET m == series_max(Column(g, "total_price"))
      i == CHOOSE i \in 1..Len(g) :
             /\ g[i]["total_price"] = m
             /\ \A j \in (i + 1)..Len(g) : g[j]["total_price"] # m
  IN  g[i][col]

\* Series.idxmax() on a non-empty grouped sum: the key of the first row that
\* holds the maximum.
idxmax(g, col) ==
  LET m == series_max(Column(g, "total_price"))
      i == CHOOSE i \in 1..Len(g) :
             /\ g[i]["total_price"] = m
             /\ \A j \in 1..(i - 1) : g[j]["total_price"] # m
  IN  g[i][col]

\* st.selectbox: the options offered; the widget returns None without options.
selectbox_values(options) ==
  IF options = <<>> THEN {None} ELSE {options[i] : i \in 1..Len(options)}

----------------------------------------------------------------------------
(* load_data and the page functions.                                       *)

\* load_data(): read the file, parse order_date when the column exists.
load_data(file) ==
  IF "order_date" \in file.columns
  THEN assign_column(file, "order_date",
                     [i \in 1..Len(file.rows) |-> to_datetime(file.rows[i]["order_date"])])
  ELSE file

\* st.cache_data: the body runs on the first call; later calls return the
\* cached value.
cached_load(c, file) == IF c = <<>> THEN load_data(file) ELSE c[1]

NoError == [exc |-> "none", line |-> 0]
KeyError(line) == [exc |-> "KeyError", line |-> line]
ValueError(line) == [exc |-> "ValueError", line |-> line]

\* What a page function leaves behind: the module-level data, the local
\* names it bound, the elements it sent to the page, and the exception that
\* ended it (if any).
Outcome(d, loc, elems, err) == [data |-> d, locals |-> loc, elements |-> elems, error |-> err]

Bind(loc, name, val) == (name :> val) @@ loc

NoLocals == [n \in {} |-> 0]

order_date_unguarded(d) == TRUE

\* if 'order_date' in data.columns
has_order_date(d) == "order_date" \in d.columns

global_rebound(d, fd) == fd

\* The module-level `data` after `filtered_data[...] = ...`: filtered_data is
\* a separate frame produced by boolean indexing, so data is left as it was.
global_data(d, fd) == d

\* filtered_data['order_date'] = pd.to_datetime(filtered_data['order_date'])
convert_order_date(fd) ==
  assign_column(fd, "order_date",
                [i \in 1..Len(fd.rows) |-> to_datetime(fd.rows[i]["order_date"])])

home_page(d) == Outcome(d, NoLocals, <<"title", "image">>, NoError)

data_visualization(d, choice, show) ==
  IF "pizza_category" \notin d.columns
  THEN Outcome(d, NoLocals, <<"title">>, KeyError(81))
  ELSE
  LET l1 == Bind(NoLocals, "pizza_filter", choice)
      fd == bool_index(d, "pizza_category", choice)
      l2 == Bind(l1, "filtered_data", fd)
  IN
  IF ~ {"pizza_name", "total_price"} \subseteq d.columns
  THEN Outcome(d, l2, <<"title", "selectbox">>, KeyError(87))
  ELSE
  LET l3 == Bind(l2, "total_sales_by_pizza", groupby_sum(fd.rows, "pizza_name"))
      e3 == <<"title", "selectbox", "bar">>
  IN
  IF "pizza_size" \notin d.columns
  THEN Outcome(d, l3, e3, KeyError(92))
  ELSE
  LET l4 == Bind(l3, "sales_by_size", groupby_sum(fd.rows, "pizza_size"))
      e4 == e3 \o <<"pie">>
  IN
  IF has_order_date(d) /\ "order_date" \notin fd.columns
  THEN Outcome(d, l4, e4, KeyError(98))
  ELSE
  LET timed == has_order_date(d)
      fd2 == IF timed THEN convert_order_date(fd) ELSE fd
      d2 == IF timed THEN global_data(d, fd2) ELSE d
      l5 == IF timed
            THEN Bind(Bind(l4, "filtered_data", fd2),
                      "sales_over_time", groupby_sum(fd2.rows, "order_date"))
            ELSE l4
      e5 == IF timed THEN e4 \o <<"line">> ELSE e4
      e6 == IF show THEN e5 \o <<"table">> ELSE e5
  IN  Outcome(d2, l5, e6 \o <<"download">>, NoError)

data_analysis(d, choice, picked) ==
  IF "pizza_category" \notin d.columns
  THEN Outcome(d, NoLocals, <<"title">>, KeyError(134))
  ELSE
  LET l1 == Bind(NoLocals, "category", choice)
      fd == bool_index(d, "pizza_category", choice)
      l2 == Bind(l1, "filtered_data", fd)
      e2 == <<"title", "selectbox">>
  IN
  IF "total_price" \notin d.columns
  THEN Outcome(d, l2, e2, KeyError(138))
  ELSE
  LET l3 == Bind(l2, "total_sales", series_sum(Column(fd.rows, "total_price")))
  IN
  IF "unit_price" \notin d.columns
  THEN Outcome(d, l3, e2, KeyError(139))
  ELSE
  LET l4 == Bind(l3, "average_price", series_mean(Column(fd.rows, "unit_price")))
  IN
  IF "pizza_name" \notin d.columns
  THEN Outcome(d, l4, e2, KeyError(140))
  ELSE
  LET by_pizza == groupby_sum(fd.rows, "pizza_name")
  IN
  IF by_pizza = <<>>
  THEN Outcome(d, l4, e2, ValueError(140))
  ELSE
  LET l5 == Bind(l4, "top_selling_pizza", idxmax(by_pizza, "pizza_name"))
      l6 == Bind(l5, "top_pizza_sales", series_max(Column(by_pizza, "total_price")))
      e6 == e2 \o <<"metrics">>
  IN
  IF has_order_date(d) /\ "order_date" \notin fd.columns
  THEN Outcome(d, l6, e6, KeyError(156))
  ELSE
  LET timed == has_order_date(d)
      fd2 == IF timed THEN convert_order_date(fd) ELSE fd
      d2 == IF timed THEN global_data(d, fd2) ELSE d
      l7 == IF timed
            THEN Bind(Bind(l6, "filtered_data", fd2),
                      "time_data", groupby_sum(fd2.rows, "order_date"))
            ELSE l6
      e7 == IF timed THEN e6 \o <<"line">> ELSE e6
      l8 == Bind(l7, "compare", picked)
      l9 == IF picked # {}
            THEN Bind(l8, "comparison_data", isin_index(d2, "pizza_name", picked))
            ELSE l8
      e9 == IF picked # {} THEN e7 \o <<"multiselect", "compare">> ELSE e7 \o <<"multiselect">>
  IN  Outcome(d2, l9, e9 \o <<"download">>, NoError)

----------------------------------------------------------------------------
(* The state machine: one action per script rerun.                         *)

VARIABLES
  file,      \* the CSV file as read_csv sees it
  cache,     \* st.cache_data's store for load_data: <<>> or <<frame>>
  data,      \* the module-level data
  page,      \* the sidebar radio's value in the last rerun
  locals,    \* the names the page function bound in the last rerun
  elements,  \* the elements the last rerun sent to the page
  error      \* the exception that ended the last rerun, or NoError

vars == <<file, cache, data, page, locals, elements, error>>

Start ==
  /\ cache = <<>>
  /\ data = Frame({}, <<>>)
  /\ page = "none"
  /\ locals = NoLocals
  /\ elements = <<>>
  /\ error = NoError

Init ==
  /\ file \in {read_csv(Columns, lines) : lines \in CsvFiles(MaxRows)}
  /\ Start

InitSchema ==
  /\ file \in {read_csv(cols, lines) :
                 cols \in {Columns} \cup {Columns \ {c} : c \in Columns},
                 lines \in CsvFiles(MaxRowsSchema)}
  /\ Start

Finish(p, out) ==
  /\ page' = p
  /\ data' = out.data
  /\ locals' = out.locals
  /\ elements' = out.elements
  /\ error' = out.error

CategoryChoices(d) ==
  IF "pizza_category" \in d.columns
  THEN selectbox_values(np_unique(d.rows, "pizza_category"))
  ELSE {None}

CompareChoices(d) ==
  IF "pizza_name" \in d.columns
  THEN SUBSET {d.rows[i]["pizza_name"] : i \in 1..Len(d.rows)}
  ELSE {{}}

Home ==
  LET d == cached_load(cache, file)
  IN  /\ cache' = <<d>>
      /\ Finish("Home", home_page(d))
      /\ UNCHANGED file

DataVisualization ==
  LET d == cached_load(cache, file)
  IN  \E choice \in CategoryChoices(d), show \in BOOLEAN :
        /\ cache' = <<d>>
        /\ Finish("Data Visualization", data_visualization(d, choice, show))
        /\ UNCHANGED file

DataAnalysis ==
  LET d == cached_load(cache, file)
  IN  \E choice \in CategoryChoices(d), picked \in CompareChoices(d) :
        /\ cache' = <<d>>
        /\ Finish("Data Analysis", data_analysis(d, choice, picked))
        /\ UNCHANGED file

Next == Home \/ DataVisualization \/ DataAnalysis

Spec == Init /\ [][Next]_vars

SpecSchema == InitSchema /\ [][Next]_vars

----------------------------------------------------------------------------
(* Vocabulary of the properties.                                           *)

DV == "Data Visualization"
DA == "Data Analysis"

Has(name) == name \in DOMAIN locals

\* The category the last rerun's selectbox returned.
Selected == IF page = DV THEN locals["pizza_filter"] ELSE locals["category"]

Filtered == page \in {DV, DA} /\ Has("filtered_data")

View == locals["filtered_data"].rows

\* Sum of total_price over the rows at the positions I.
RECURSIVE SumAt(_, _)
SumAt(rows, I) ==
  IF I = {} THEN 0
  ELSE LET i == CHOOSE i \in I : TRUE
       IN  rows[i]["total_price"] + SumAt(rows, I \ {i})

Where(rows, col, v) == {i \in 1..Len(rows) : rows[i][col] = v}

Values(rows, col) == {rows[i][col] : i \in 1..Len(rows)}

\* s is the subsequence of rows at the positions I, in order.
IsSubsequenceAt(s, rows, I) ==
  /\ Len(s) = Cardinality(I)
  /\ \A k \in 1..Len(s) :
       \E i \in I : Cardinality({j \in I : j < i}) = k - 1 /\ s[k] = rows[i]

----------------------------------------------------------------------------
\* C1: on the Data Visualization and Data Analysis pages the filtered view
\* holds exactly the dataset rows whose pizza_category is the selected
\* category: no row of another category, and every row of that category.
C1_FilterExact ==
  Filtered =>
    /\ \A k \in 1..Len(View) : View[k]["pizza_category"] = Selected
    /\ IsSubsequenceAt(View, data.rows, Where(data.rows, "pizza_category", Selected))

C1_Witness ==
  /\ Filtered
  /\ Len(View) >= 2
  /\ Len(View) < Len(data.rows)
  /\ data.rows[1]["pizza_category"] # Selected

\* C2: after any sequence of reruns (any page, category, comparison choice,
\* show-table toggle), the module-level data is what load_data produced
\* from the file: the renders never change it.
C2_DatasetNeverMutated ==
  cache # <<>> => data = load_data(file) /\ cache = <<data>>

C2_Witness ==
  /\ page = DV
  /\ Has("sales_over_time")
  /\ "table" \in {elements[i] : i \in 1..Len(elements)}
  /\ Len(View) >= 1
  /\ Len(View) < Len(data.rows)

\* C3: when the filtered view is empty and the summary metrics are
\* requested, the render does not end in an exception: it goes on to the
\* rest of the page.
C3_EmptyViewMetricRecoverable ==
  (page = DA /\ Has("average_price") /\ View = <<>>) =>
     /\ error = NoError
     /\ Has("compare")

\* C4: for a non-empty view, top_selling_pizza has the greatest summed
\* total_price among the view's pizza names, is the lexicographically first
\* of the names with that sum, and top_pizza_sales is its sum.
C4_TopPizzaLexFirst ==
  (page = DA /\ Has("top_pizza_sales")) =>
     LET names == Values(View, "pizza_name")
         T(n) == SumAt(View, Where(View, "pizza_name", n))
         top == locals["top_selling_pizza"]
     IN  /\ top \in names
         /\ \A n \in names : T(n) <= T(top)
         /\ \A n \in names : T(n) = T(top) => ~ StrLess(n, top)
         /\ locals["top_pizza_sales"] = T(top)

C4_Witness ==
  /\ page = DA
  /\ Has("top_pizza_sales")
  /\ View[1]["pizza_name"] # locals["top_selling_pizza"]
  /\ SumAt(View, Where(View, "pizza_name", View[1]["pizza_name"])) = locals["top_pizza_sales"]

\* The daily sales series of the last rerun.
Series == IF page = DV THEN locals["sales_over_time"] ELSE locals["time_data"]

\* C5: the daily sales series is strictly ascending in date, has one entry
\* for each date that has a row in the view, holding the sum of total_price
\* of that date's rows, and has no entry for any other date.
C5_DailySeriesAscending ==
  ((page = DV /\ Has("sales_over_time")) \/ (page = DA /\ Has("time_data"))) =>
     /\ \A i, j \in 1..Len(Series) :
          i < j => Series[i]["order_date"].day < Series[j]["order_date"].day
     /\ Values(Series, "order_date") = Values(View, "order_date")
     /\ \A i \in 1..Len(Series) :
          Series[i]["total_price"] = SumAt(View, Where(View, "order_date", Series[i]["order_date"]))

C5_Witness ==
  /\ page = DV
  /\ Has("sales_over_time")
  /\ Len(View) = 3
  /\ Len(locals["sales_over_time"]) = 2
  /\ View[1]["order_date"].day > View[2]["order_date"].day
  /\ locals["sales_over_time"][2]["order_date"].day - locals["sales_over_time"][1]["order_date"].day > 1

\* C6: the per-size sums of total_price over the filtered view add up to
\* the total sales of the same view.
C6_SizeSumsAddUp ==
  /\ (page = DV /\ Has("sales_by_size")) =>
        series_sum(Column(locals["sales_by_size"], "total_price")) = SumAt(View, 1..Len(View))
  /\ (page = DA /\ Has("total_sales")) =>
        /\ locals["total_sales"] = SumAt(View, 1..Len(View))
        /\ series_sum(Column(groupby_sum(View, "pizza_size"), "total_price"))
             = locals["total_sales"]

C6_Witness ==
  /\ page = DV
  /\ Has("sales_by_size")
  /\ Len(locals["sales_by_size"]) = 2
  /\ Len(View) = 3

\* C7 (as claimed): when an expected column is missing, the rerun ends in a
\* schema error before any filtering or aggregation has run.
C7_SchemaFailFast ==
  (page \in {DV, DA} /\ data.columns # Columns) =>
     /\ error.exc = "SchemaError"
     /\ DOMAIN locals = {}

\* The columns each page function reads other than order_date.
Reads(p) ==
  IF p = DV THEN {"pizza_category", "pizza_name", "total_price", "pizza_size"}
  ELSE IF p = DA THEN {"pizza_category", "total_price", "unit_price", "pizza_name"}
  ELSE {}

\* C7 (amended): no schema error is ever raised and loading succeeds with
\* any columns.  Without order_date a page whose other columns are present
\* filters and aggregates and only leaves out the daily series.  Without
\* another column a page that reads it ends in a KeyError raised inside the
\* page function, and a page that does not read it raises no KeyError.
C7_MissingColumnBehaviour ==
  /\ error.exc # "SchemaError"
  /\ cache # <<>> => data.columns = file.columns /\ Len(data.rows) = Len(file.rows)
  /\ (page \in {DV, DA} /\ "order_date" \notin data.columns /\ Reads(page) \subseteq data.columns) =>
        /\ error.exc # "KeyError"
        /\ Has("filtered_data")
        /\ "line" \notin {elements[i] : i \in 1..Len(elements)}
        /\ ~ Has("sales_over_time") /\ ~ Has("time_data")
        /\ page = DV => error = NoError /\ Has("total_sales_by_pizza") /\ Has("sales_by_size")
        /\ page = DA => Has("total_sales") /\ Has("average_price")
  /\ (page \in {"Home", DV, DA} /\ ~ Reads(page) \subseteq data.columns) =>
        /\ error.exc = "KeyError"
        /\ error.line >= 81
        /\ "download" \notin {elements[i] : i \in 1..Len(elements)}
  /\ (page \in {"Home", DV, DA} /\ Reads(page) \subseteq data.columns) =>
        error.exc # "KeyError"

C7_Witness ==
  /\ page = DV
  /\ "order_date" \notin data.columns
  /\ error = NoError
  /\ Len(View) = 2
  /\ Len(locals["sales_by_size"]) = 2

\* The pizzas picked for comparison and what is handed to the chart.
Picked == locals["compare"]
Comparison == locals["comparison_data"].rows

\* C8 (as claimed): the comparison result has exactly one entry for each
\* picked pizza, holding the sum of total_price over all dataset rows of
\* that pizza.
C8_ComparisonIsPerPizzaSum ==
  (page = DA /\ Has("comparison_data")) =>
     /\ Len(Comparison) = Cardinality(Picked)
     /\ \A k \in 1..Len(Comparison) :
          Comparison[k]["total_price"]
            = SumAt(data.rows, Where(data.rows, "pizza_name", Comparison[k]["pizza_name"]))

\* C8 (amended): the comparison result is the dataset rows whose pizza_name
\* is picked, one entry per row in dataset order, not aggregated; summed per
\* pizza they give the pizza's total_price over the whole dataset, whatever
\* category is selected.
C8_ComparisonIsRowSubset ==
  (page = DA /\ Has("comparison_data")) =>
     /\ IsSubsequenceAt(Comparison, data.rows,
                        {i \in 1..Len(data.rows) : data.rows[i]["pizza_name"] \in Picked})
     /\ \A n \in Picked :
          SumAt(Comparison, Where(Comparison, "pizza_name", n))
            = SumAt(data.rows, Where(data.rows, "pizza_name", n))

C8_Witness ==
  /\ page = DA
  /\ Has("comparison_data")
  /\ Cardinality(Picked) = 2
  /\ Len(Comparison) = 3
  /\ \E k \in 1..3 : Comparison[k]["pizza_category"] # Selected

\* C9: a category that does not occur in the dataset gives an empty view
\* without an exception; on it the per-pizza and per-size aggregates and
\* the daily series are empty and total_sales is 0, none of them raising.
C9_EmptyViewLaws ==
  (Filtered /\ Where(data.rows, "pizza_category", Selected) = {}) =>
     /\ View = <<>>
     /\ page = DV =>
          /\ error = NoError
          /\ Has("total_sales_by_pizza") /\ locals["total_sales_by_pizza"] = <<>>
          /\ Has("sales_by_size") /\ locals["sales_by_size"] = <<>>
          /\ Has("sales_over_time") /\ locals["sales_over_time"] = <<>>
     /\ page = DA =>
          /\ Has("total_sales") /\ locals["total_sales"] = 0
          /\ groupby_sum(View, "pizza_name") = <<>>
          /\ error.line \notin {135, 138}

C9_Witness ==
  /\ page = DV
  /\ Has("sales_over_time")
  /\ View = <<>>
  /\ Selected = None
  /\ error = NoError

\* The keys of a grouped sum, in result order.
Keys(agg, col) == Column(agg, col)

\* C10 (as claimed): the per-pizza and per-size aggregates list each key of
\* the view once, in the order in which the keys first occur in the view.
C10_KeysInFirstOccurrenceOrder ==
  /\ (page = DV /\ Has("total_sales_by_pizza")) =>
        Keys(locals["total_sales_by_pizza"], "pizza_name") = unique(Column(View, "pizza_name"))
  /\ (page = DV /\ Has("sales_by_size")) =>
        Keys(locals["sales_by_size"], "pizza_size") = unique(Column(View, "pizza_size"))

AscendingKeys(agg, col) ==
  /\ \A i, j \in 1..Len(agg) : i < j => StrLess(agg[i][col], agg[j][col])
  /\ Values(agg, col) = Values(View, col)

\* C10 (amended): the per-pizza and per-size aggregates list each key of
\* the view exactly once, in ascending lexicographic order of the key.
C10_KeysAscending ==
  /\ (page = DV /\ Has("total_sales_by_pizza")) =>
        AscendingKeys(locals["total_sales_by_pizza"], "pizza_name")
  /\ (page = DV /\ Has("sales_by_size")) =>
        AscendingKeys(locals["sales_by_size"], "pizza_size")

C10_Witness ==
  /\ page = DV
  /\ Has("sales_by_size")
  /\ Len(View) = 3
  /\ Keys(locals["total_sales_by_pizza"], "pizza_name") # unique(Column(View, "pizza_name"))
  /\ Keys(locals["sales_by_size"], "pizza_size") # unique(Column(View, "pizza_size"))

====
